---- MODULE Spec2Model ----
(***************************************************************************)
(* Order lifecycle and stock reservation of the femty-backend store.       *)
(*                                                                         *)
(* Spec, SpecSerial: createOrder (src/controllers/orderController.js)      *)
(* against the Product schema (src/models/Product.js).  Every `await` of   *)
(* the handler is a point where another request may run, so createOrder is *)
(* a sequence of steps; SpecSerial serves the requests one after the other.*)
(*                                                                         *)
(* SpecPay: the payment routes (create-checkout-session, verify-session,   *)
(* webhook), updateOrderToPaid and getOrderById, one step per request.     *)
(*                                                                         *)
(* SpecStatus: one order from its creation through payment and the status  *)
(* writes of updateOrderStatus.  SpecPrice: the prices of an order.        *)
(* SpecFail: SpecPay with a data store that may fail under the webhook.    *)
(***************************************************************************)
EXTENDS Integers, Sequences, FiniteSets, TLC

(* ------------------------------------------------------------------ *)
(* Bounds of the model                                                  *)
(* ------------------------------------------------------------------ *)
MaxStock == 2
MaxQty == 2
\* the clock runs from 1 to MaxTime
MaxTime == 2
\* confirmation e-mails counted per order
MaxEmails == 2

(* ------------------------------------------------------------------ *)
(* Domains                                                              *)
(* ------------------------------------------------------------------ *)
Products == {"p1", "p2"}
\* an id that names no product document: Product.findById returns null
MissingProduct == "p0"
\* the two HTTP requests that may be in flight together, and their callers
Reqs == {"r1", "r2"}
ReqUser == [r \in Reqs |-> IF r = "r1" THEN "u1" ELSE "u2"]

Qtys == 1..MaxQty
\* a line item of req.body.orderItems; the quantity of a line on a missing
\* product is never read, so one value stands for all
Lines == [product : Products, quantity : Qtys]
           \cup {[product |-> MissingProduct, quantity |-> 1]}
\* req.body.orderItems: no line, one line, or two lines (a line before or
\* after a failing one, the same product twice)
Carts == {<< >>} \cup {<<a>> : a \in Lines} \cup {<<a, b>> : a, b \in Lines}

OrderIds == {1, 2}
NoTime == 0
NoResult == [id |-> "none", status |-> "none", update_time |-> "none",
             email_address |-> "none"]
NoOrder == [exists |-> FALSE]

\* the accounts of the User collection and their roles
Users == {"u1", "u2", "adm"}
Role == [u \in Users |-> IF u = "adm" THEN "admin" ELSE "user"]
\* the account that checks out in a run; u2 is another customer, adm an administrator
Customers == {"u1"}
\* req.body.items of create-checkout-session: lines with a price and a quantity
CheckoutCarts == {<< >>, <<[product |-> "none", quantity |-> 1, price |-> 3]>>}
\* the same with more to add up: two lines, a quantity above one
PricedCarts ==
  CheckoutCarts \cup {<<[product |-> "none", quantity |-> 2, price |-> 3],
                        [product |-> "none", quantity |-> 1, price |-> 1]>>}
\* `deliveryFee = 5` when req.body names none
DefaultDeliveryFee == 5
\* req.body.deliveryFee
Fees == {-1, 0, DefaultDeliveryFee}
\* itemsPrice, shippingPrice, taxPrice and totalPrice of req.body of
\* createOrder: the client sends all four
Bills == [itemsPrice : {1}, shippingPrice : {-1, 0}, taxPrice : {0},
          totalPrice : {1, 2}]
\* the bill of a client that adds up, free delivery and no tax
StandardBill == [itemsPrice |-> 1, shippingPrice |-> 0, taxPrice |-> 0, totalPrice |-> 1]
\* req.body of PUT /:id/pay
PayBodies ==
  {[id |-> "tx_a", status |-> "COMPLETED", update_time |-> "t_a", email_address |-> "a@x"],
   [id |-> "tx_b", status |-> "COMPLETED", update_time |-> "t_b", email_address |-> "b@x"]}
\* the values of Order.status
Statuses == {"pending", "processing", "shipped", "delivered", "cancelled"}
EventTypes == {"checkout.session.completed", "payment_intent.payment_failed", "other"}
\* the Checkout Session made for order o, and what Stripe reports of it
SessionId(o) == IF o = 1 THEN "cs_1" ELSE "cs_2"
PaymentIntent(o) == IF o = 1 THEN "pi_1" ELSE "pi_2"
Email(u) == u
NoLast == [op |-> "none", code |-> 0, order |-> 0, user |-> "none",
           sig |-> TRUE, type |-> "none", body |-> NoResult,
           kind |-> "none", mail |-> "none"]

VARIABLES
  stock,      \* Product.stock of each product document
  inStock,    \* Product.inStock of each product document
  initStock,  \* history: the stock when the store opened
  orders,     \* the Order collection: id -> document or NoOrder
  pc,         \* createOrder: where each request stands
  items,      \* createOrder: req.body.orderItems of each request
  bill,       \* createOrder: the four prices of req.body of each request
  idx,        \* createOrder: the loop index (1-based) of `for (let item of orderItems)`
  doc,        \* createOrder: the product document held between findById and save
  code,       \* createOrder: HTTP status answered (0 = none yet)
  startStock, \* history: the stock each request saw when it arrived
  saved,      \* history: how many product.save() of each request have committed
  now,        \* the clock read by Date.now() and new Date()
  session,    \* Stripe: the Checkout Session bound to each order: "none", "open", "paid"
  resendKey,  \* process.env.RESEND_API_KEY is set
  emails,     \* calls of sendOrderConfirmationEmail, per order
  last        \* the most recent request to the payment and order routes and its answer

vars == <<stock, inStock, initStock, orders, pc, items, bill, idx, doc, code,
          startStock, saved, now, session, resendKey, emails, last>>

catalogVars == <<stock, inStock, initStock>>
requestVars == <<pc, items, bill, idx, doc, code, startStock, saved>>
paymentVars == <<now, session, resendKey, emails, last>>

NoDoc == [stock |-> 0, inStock |-> FALSE, flagSet |-> FALSE]

(* ------------------------------------------------------------------ *)
(* Documents                                                            *)
(* ------------------------------------------------------------------ *)
\* what the Order schema fills in for the fields a creator leaves out
OrderDefaults ==
  [status |-> "pending", isPaid |-> FALSE, paidAt |-> NoTime,
   paymentResult |-> NoResult, isDelivered |-> FALSE, deliveredAt |-> NoTime]

\* the prices the Order schema stores: none below zero
OrderSchemaAccepts(b) ==
  b.itemsPrice >= 0 /\ b.shippingPrice >= 0 /\ b.taxPrice >= 0 /\ b.totalPrice >= 0

\* Order.create({user, orderItems, ..., itemsPrice, shippingPrice, taxPrice,
\* totalPrice}) of createOrder
NewOrder(user, orderItems, b) ==
  [exists |-> TRUE, user |-> user, orderItems |-> orderItems,
   itemsPrice |-> b.itemsPrice, shippingPrice |-> b.shippingPrice,
   taxPrice |-> b.taxPrice, totalPrice |-> b.totalPrice,
   status |-> OrderDefaults.status, isPaid |-> OrderDefaults.isPaid,
   paidAt |-> OrderDefaults.paidAt, paymentResult |-> OrderDefaults.paymentResult,
   isDelivered |-> OrderDefaults.isDelivered, deliveredAt |-> OrderDefaults.deliveredAt,
   stripeSessionId |-> "none"]

FreeIds == {o \in OrderIds : ~orders[o].exists}
NextId == CHOOSE o \in FreeIds : \A o2 \in FreeIds : o <= o2

\* the `min: 0` validator of productSchema.stock, run by product.save()
StockValid(s) == s >= 0

\* a product as the schema allows it to be stored: inStock is seeded with the
\* stock, and a product created without a stock gets stock 0, inStock true
ProductStates ==
  {[stock |-> s, inStock |-> (s > 0)] : s \in 0..MaxStock}
     \cup {[stock |-> 0, inStock |-> TRUE]}

InitRequests ==
  /\ orders = [o \in OrderIds |-> NoOrder]
  /\ pc = [r \in Reqs |-> "idle"]
  /\ items = [r \in Reqs |-> << >>]
  /\ bill = [r \in Reqs |-> StandardBill]
  /\ idx = [r \in Reqs |-> 0]
  /\ doc = [r \in Reqs |-> NoDoc]
  /\ code = [r \in Reqs |-> 0]
  /\ startStock = [r \in Reqs |-> stock]
  /\ saved = [r \in Reqs |-> 0]

\* the server has started and no request has been served
InitServer ==
  /\ initStock = stock
  /\ now = 1
  /\ session = [o \in OrderIds |-> "none"]
  /\ emails = [o \in OrderIds |-> 0]
  /\ last = NoLast
  /\ InitRequests

Init ==
  /\ \E f \in [Products -> ProductStates] :
       /\ stock = [p \in Products |-> f[p].stock]
       /\ inStock = [p \in Products |-> f[p].inStock]
  /\ resendKey = TRUE
  /\ InitServer
(* ------------------------------------------------------------------ *)
(* createOrder                                                          *)
(* ------------------------------------------------------------------ *)
Respond(r, status) ==
  /\ pc' = [pc EXCEPT ![r] = "done"]
  /\ code' = [code EXCEPT ![r] = status]

\* the request arrives; an empty cart is answered 400 at once
CreateOrderStart(r, cart, b) ==
  /\ pc[r] = "idle"
  /\ items' = [items EXCEPT ![r] = cart]
  /\ bill' = [bill EXCEPT ![r] = b]
  /\ startStock' = [startStock EXCEPT ![r] = stock]
  /\ IF Len(cart) = 0
       THEN /\ Respond(r, 400)
            /\ idx' = idx
       ELSE /\ pc' = [pc EXCEPT ![r] = "check"]
            /\ idx' = [idx EXCEPT ![r] = 1]
            /\ code' = code
  /\ UNCHANGED <<catalogVars, orders, doc, saved, paymentVars>>

\* the first loop as a validate-and-reserve pass: a line that passes the two
\* tests takes its quantity off the stock at once
CreateOrderCheckReserving(r) ==
  /\ pc[r] = "check"
  /\ LET item == items[r][idx[r]] IN
       IF item.product \notin Products
         THEN Respond(r, 404) /\ idx' = idx /\ stock' = stock
       ELSE IF stock[item.product] < item.quantity
         THEN Respond(r, 400) /\ idx' = idx /\ stock' = stock
       ELSE /\ stock' = [stock EXCEPT ![item.product] = @ - item.quantity]
            /\ IF idx[r] < Len(items[r])
                 THEN /\ idx' = [idx EXCEPT ![r] = idx[r] + 1]
                      /\ UNCHANGED <<pc, code>>
                 ELSE /\ pc' = [pc EXCEPT ![r] = "create"]
                      /\ idx' = idx
                      /\ code' = code
  /\ UNCHANGED <<inStock, initStock, orders, items, bill, doc, startStock, saved, paymentVars>>

\* one round of the first loop: findById, then the two tests
CreateOrderCheck(r) ==
  /\ pc[r] = "check"
  /\ LET item == items[r][idx[r]] IN
       IF item.product \notin Products
         THEN Respond(r, 404) /\ idx' = idx
       ELSE IF stock[item.product] < item.quantity
         THEN Respond(r, 400) /\ idx' = idx
       ELSE IF idx[r] < Len(items[r])
         THEN /\ idx' = [idx EXCEPT ![r] = idx[r] + 1]
              /\ UNCHANGED <<pc, code>>
         ELSE /\ pc' = [pc EXCEPT ![r] = "create"]
              /\ idx' = idx
              /\ code' = code
  /\ UNCHANGED <<catalogVars, orders, items, bill, doc, startStock, saved, paymentVars>>

\* Order.create with the prices as the client sent them; a document the
\* schema refuses is not stored and the catch answers 500
CreateOrderPersist(r) ==
  /\ pc[r] = "create"
  /\ FreeIds # {}
  /\ IF OrderSchemaAccepts(bill[r])
       THEN /\ orders' = [orders EXCEPT ![NextId] =
                            NewOrder(ReqUser[r], items[r], bill[r])]
            /\ pc' = [pc EXCEPT ![r] = "load"]
            /\ idx' = [idx EXCEPT ![r] = 1]
            /\ code' = code
       ELSE /\ Respond(r, 500)
            /\ UNCHANGED <<orders, idx>>
  /\ UNCHANGED <<catalogVars, items, bill, doc, startStock, saved, paymentVars>>

\* the same without `if (product.stock === 0) product.inStock = false`
DecrementedKeepsFlag(d, q) ==
  [stock |-> d.stock - q, inStock |-> d.inStock, flagSet |-> FALSE]

\* the document after `product.stock -= item.quantity` and the inStock test;
\* flagSet: inStock was given a new value, so it is a changed path
Decremented(d, q) ==
  [stock |-> d.stock - q,
   inStock |-> IF d.stock - q = 0 THEN FALSE ELSE d.inStock,
   flagSet |-> (d.stock - q = 0 /\ d.inStock)]

\* one round of the second loop up to the call of save(): findById and the
\* changes made to the document in memory
CreateOrderLoad(r) ==
  /\ pc[r] = "load"
  /\ LET item == items[r][idx[r]]
         found == [stock |-> stock[item.product], inStock |-> inStock[item.product]]
     IN doc' = [doc EXCEPT ![r] = Decremented(found, item.quantity)]
  /\ pc' = [pc EXCEPT ![r] = "save"]
  /\ UNCHANGED <<catalogVars, orders, items, bill, idx, code, startStock, saved, paymentVars>>

\* what save() writes: the changed paths only.  stock is always one; inStock
\* is part of the update only when it was given a new value, and the stored
\* flag stays as it is otherwise
Written(d, storedFlag) ==
  [stock |-> d.stock, inStock |-> IF d.flagSet THEN d.inStock ELSE storedFlag]

\* product.save(): the validator rejects a negative stock (the catch answers
\* 500); otherwise the update commits and the loop goes on or the request
\* is answered 201
CreateOrderSave(r) ==
  /\ pc[r] = "save"
  /\ LET p == items[r][idx[r]].product IN
       IF ~StockValid(doc[r].stock)
         THEN /\ Respond(r, 500)
              /\ UNCHANGED <<stock, inStock, idx, saved>>
         ELSE /\ stock' = [stock EXCEPT ![p] = Written(doc[r], inStock[p]).stock]
              /\ inStock' = [inStock EXCEPT ![p] = Written(doc[r], inStock[p]).inStock]
              /\ saved' = [saved EXCEPT ![r] = saved[r] + 1]
              /\ IF idx[r] < Len(items[r])
                   THEN /\ idx' = [idx EXCEPT ![r] = idx[r] + 1]
                        /\ pc' = [pc EXCEPT ![r] = "load"]
                        /\ code' = code
                   ELSE /\ Respond(r, 201)
                        /\ idx' = idx
  /\ UNCHANGED <<initStock, orders, items, bill, doc, startStock, paymentVars>>

(* ------------------------------------------------------------------ *)
(* Payment routes (the current paymentRoutes) and the order routes      *)
(* ------------------------------------------------------------------ *)
\* a request is answered: `kind` is the form of the response body ("json" for
\* res.json, "text" for res.send of a string), `mail` what became of the
\* confirmation e-mail of the request ("none": no send was tried)
Reply(kind, mail, op, status, o, u, sig, type, body) ==
  last' = [op |-> op, code |-> status, order |-> o, user |-> u,
           sig |-> sig, type |-> type, body |-> body, kind |-> kind, mail |-> mail]

\* res.status(status).json(...) of a request that tried no e-mail
Answer(op, status, o, u, sig, type, body) ==
  Reply("json", "none", op, status, o, u, sig, type, body)

\* resend.emails.send resolves, or throws into the try/catch around the call
SendOutcome(sendOk) == IF sendOk THEN "sent" ELSE "failed"

\* User.findById: the accounts are never deleted
UserFound(u) == u \in Users

\* the time goes by
Tick ==
  /\ now < MaxTime
  /\ now' = now + 1
  /\ UNCHANGED <<catalogVars, orders, requestVars, session, resendKey, emails, last>>

\* items.reduce((sum, item) => sum + (item.price * item.quantity), 0)
RECURSIVE ItemsTotal(_)
ItemsTotal(cart) ==
  IF Len(cart) = 0 THEN 0
  ELSE ItemsTotal(SubSeq(cart, 1, Len(cart) - 1))
         + cart[Len(cart)].price * cart[Len(cart)].quantity

\* the prices create-checkout-session works out for its order
CheckoutBill(cart, fee) ==
  [itemsPrice |-> ItemsTotal(cart), shippingPrice |-> fee, taxPrice |-> 0,
   totalPrice |-> ItemsTotal(cart) + fee]

\* Order.create of create-checkout-session: status is given, the rest is left
\* to the schema
CheckoutOrder(u, cart, fee) ==
  [NewOrder(u, cart, CheckoutBill(cart, fee)) EXCEPT !.status = "pending"]

\* POST /create-checkout-session: the order is created first, then the
\* Checkout Session (Stripe may fail: the catch answers 500 and the order
\* stays), then the session id is saved on the order
CreateCheckoutSession(u, cart, fee, stripeOk) ==
  /\ IF Len(cart) = 0
       THEN /\ Answer("checkout", 400, 0, u, TRUE, "none", NoResult)
            /\ UNCHANGED <<orders, session>>
     ELSE IF ~OrderSchemaAccepts(CheckoutBill(cart, fee))
       THEN /\ Answer("checkout", 500, 0, u, TRUE, "none", NoResult)
            /\ UNCHANGED <<orders, session>>
       ELSE /\ FreeIds # {}
            /\ LET o == NextId IN
                 IF stripeOk
                   THEN /\ orders' = [orders EXCEPT ![o] =
                                        [CheckoutOrder(u, cart, fee) EXCEPT
                                           !.stripeSessionId = SessionId(o)]]
                        /\ session' = [session EXCEPT ![o] = "open"]
                        /\ Answer("checkout", 200, o, u, TRUE, "none", NoResult)
                   ELSE /\ orders' = [orders EXCEPT ![o] = CheckoutOrder(u, cart, fee)]
                        /\ session' = session
                        /\ Answer("checkout", 500, o, u, TRUE, "none", NoResult)
  /\ UNCHANGED <<catalogVars, requestVars, now, resendKey, emails>>

\* Stripe: the customer pays the open session
ProviderPays(o) ==
  /\ session[o] = "open"
  /\ session' = [session EXCEPT ![o] = "paid"]
  /\ UNCHANGED <<catalogVars, orders, requestVars, now, resendKey, emails, last>>

\* the update document of Order.findByIdAndUpdate in verify-session and in the
\* webhook: $set of these four paths, paymentResult as a whole
Confirmed(ord, t, intent, status, email) ==
  [ord EXCEPT !.isPaid = TRUE, !.paidAt = t, !.status = "processing",
              !.paymentResult = [id |-> intent, status |-> status,
                                 update_time |-> "none", email_address |-> email]]

\* sendOrderConfirmationEmail is called for the order (a request that would
\* make the MaxEmails + 1st call is not taken up)
Notify(o) == emails' = [emails EXCEPT ![o] = emails[o] + 1]

\* a verify-session in which a failed send is not caught where it is made: it
\* ends in the catch of the handler
VerifyPaidSendEscapes(o, sendOk) ==
  /\ orders' = [orders EXCEPT ![o] =
       Confirmed(orders[o], now, PaymentIntent(o), "paid", Email(orders[o].user))]
  /\ IF UserFound(orders[o].user) /\ resendKey
       THEN /\ emails[o] < MaxEmails
            /\ Notify(o)
            /\ Reply("json", SendOutcome(sendOk), "verify",
                     IF sendOk THEN 200 ELSE 500, o, "none", TRUE, "none", NoResult)
       ELSE /\ emails' = emails
            /\ Answer("verify", 200, o, "none", TRUE, "none", NoResult)

\* verify-session for a paid session: the order is updated, the e-mail is tried
\* inside its own try/catch, and the request is answered 200
VerifyPaid(o, sendOk) ==
  /\ orders' = [orders EXCEPT ![o] =
       Confirmed(orders[o], now, PaymentIntent(o), "paid", Email(orders[o].user))]
  /\ IF UserFound(orders[o].user) /\ resendKey
       THEN /\ emails[o] < MaxEmails
            /\ Notify(o)
            /\ Reply("json", SendOutcome(sendOk), "verify", 200, o, "none", TRUE,
                     "none", NoResult)
       ELSE /\ emails' = emails
            /\ Answer("verify", 200, o, "none", TRUE, "none", NoResult)

\* POST /verify-session with the session id of order o (0: no sessionId in the
\* body).  stripe.checkout.sessions.retrieve throws for an unknown session
VerifySession(o, sendOk) ==
  /\ IF o = 0
       THEN /\ Answer("verify", 400, o, "none", TRUE, "none", NoResult)
            /\ UNCHANGED <<orders, emails>>
     ELSE IF session[o] = "none"
       THEN /\ Answer("verify", 500, o, "none", TRUE, "none", NoResult)
            /\ UNCHANGED <<orders, emails>>
     ELSE IF session[o] = "paid"
       THEN VerifyPaid(o, sendOk)
     ELSE /\ Answer("verify", 400, o, "none", TRUE, "none", NoResult)
          /\ UNCHANGED <<orders, emails>>
  /\ UNCHANGED <<catalogVars, requestVars, now, session, resendKey>>

\* the events Stripe signs: checkout.session.completed only for a session that
\* was paid; anyone can post an unsigned payload of any content
Deliverable(sigOk, type, o) ==
  sigOk /\ type = "checkout.session.completed" => session[o] = "paid"

\* an event handling that cancels the order of a failed payment
WebhookEventCancelling(sigOk, type, o, sendOk) ==
  IF type = "checkout.session.completed"
    THEN IF orders[o].exists
           THEN /\ orders' = [orders EXCEPT ![o] =
                      Confirmed(orders[o], now, PaymentIntent(o), "completed",
                                Email(orders[o].user))]
                /\ IF resendKey /\ UserFound(orders[o].user)
                     THEN /\ emails[o] < MaxEmails
                          /\ Notify(o)
                          /\ Reply("json", SendOutcome(sendOk), "webhook", 200, o,
                                   "none", sigOk, type, NoResult)
                     ELSE /\ emails' = emails
                          /\ Answer("webhook", 200, o, "none", sigOk, type, NoResult)
           ELSE /\ UNCHANGED <<orders, emails>>
                /\ Answer("webhook", 200, o, "none", sigOk, type, NoResult)
    ELSE /\ orders' = IF type = "payment_intent.payment_failed" /\ orders[o].exists
                        THEN [orders EXCEPT ![o].status = "cancelled"]
                        ELSE orders
         /\ emails' = emails
         /\ Answer("webhook", 200, o, "none", sigOk, type, NoResult)

\* the event handling of the webhook, after constructEvent
WebhookEvent(sigOk, type, o, sendOk) ==
  IF type = "checkout.session.completed"
    THEN IF orders[o].exists
           THEN /\ orders' = [orders EXCEPT ![o] =
                      Confirmed(orders[o], now, PaymentIntent(o), "completed",
                                Email(orders[o].user))]
                /\ IF resendKey /\ UserFound(orders[o].user)
                     THEN /\ emails[o] < MaxEmails
                          /\ Notify(o)
                          /\ Reply("json", SendOutcome(sendOk), "webhook", 200, o,
                                   "none", sigOk, type, NoResult)
                     ELSE /\ emails' = emails
                          /\ Answer("webhook", 200, o, "none", sigOk, type, NoResult)
           ELSE /\ UNCHANGED <<orders, emails>>
                /\ Answer("webhook", 200, o, "none", sigOk, type, NoResult)
    ELSE /\ UNCHANGED <<orders, emails>>
         /\ Answer("webhook", 200, o, "none", sigOk, type, NoResult)

\* a webhook that handles the event without constructEvent
WebhookUnverified(sigOk, type, o, sendOk) ==
  /\ Deliverable(sigOk, type, o)
  /\ WebhookEvent(sigOk, type, o, sendOk)
  /\ UNCHANGED <<catalogVars, requestVars, now, session, resendKey>>

\* POST /webhook: constructEvent throws on a bad signature and the request is
\* answered 400 with a line of text; otherwise the event is handled and
\* answered {received: true}
Webhook(sigOk, type, o, sendOk) ==
  /\ Deliverable(sigOk, type, o)
  /\ IF ~sigOk
       THEN /\ Reply("text", "none", "webhook", 400, o, "none", sigOk, type, NoResult)
            /\ UNCHANGED <<orders, emails>>
       ELSE WebhookEvent(sigOk, type, o, sendOk)
  /\ UNCHANGED <<catalogVars, requestVars, now, session, resendKey>>

\* what becomes of a promise rejected inside an async route handler that has
\* no try/catch around it: Express 4 does not see it and the request gets no
\* response; Express 5 hands it to the error handler of server.js (500, JSON)
Escapes == {"unanswered", "errorHandler"}

\* POST /webhook, signed checkout.session.completed for order o, while the data
\* store is down: Order.findByIdAndUpdate rejects, outside any try/catch
WebhookStoreDown(o, escape) ==
  /\ Deliverable(TRUE, "checkout.session.completed", o)
  /\ IF escape = "errorHandler"
       THEN Reply("json", "none", "webhook", 500, o, "none", TRUE,
                  "checkout.session.completed", NoResult)
       ELSE Reply("none", "none", "webhook", 0, o, "none", TRUE,
                  "checkout.session.completed", NoResult)
  /\ UNCHANGED <<catalogVars, orders, requestVars, now, session, resendKey, emails>>

\* a pay route that marks the order paid without the time of the payment
UpdateOrderToPaidNoStamp(o, body) ==
  /\ IF ~orders[o].exists
       THEN /\ Answer("pay", 404, o, "none", TRUE, "none", body)
            /\ orders' = orders
       ELSE /\ orders' = [orders EXCEPT ![o] =
                 [orders[o] EXCEPT !.isPaid = TRUE,
                                   !.paymentResult = body, !.status = "processing"]]
            /\ Answer("pay", 200, o, "none", TRUE, "none", body)
  /\ UNCHANGED <<catalogVars, requestVars, now, session, resendKey, emails>>

\* PUT /:id/pay, behind `protect` only: req.user is not read
UpdateOrderToPaid(o, body) ==
  /\ IF ~orders[o].exists
       THEN /\ Answer("pay", 404, o, "none", TRUE, "none", body)
            /\ orders' = orders
       ELSE /\ orders' = [orders EXCEPT ![o] =
                 [orders[o] EXCEPT !.isPaid = TRUE, !.paidAt = now,
                                   !.paymentResult = body, !.status = "processing"]]
            /\ Answer("pay", 200, o, "none", TRUE, "none", body)
  /\ UNCHANGED <<catalogVars, requestVars, now, session, resendKey, emails>>

\* a status route that lets no order leave `delivered` or `cancelled`
UpdateOrderStatusGuarded(o, status) ==
  /\ IF ~orders[o].exists
       THEN /\ Answer("status", 404, o, "none", TRUE, status, NoResult)
            /\ orders' = orders
     ELSE IF orders[o].status \in {"delivered", "cancelled"}
       THEN /\ Answer("status", 400, o, "none", TRUE, status, NoResult)
            /\ orders' = orders
       ELSE /\ orders' = [orders EXCEPT ![o] =
                 IF status = "delivered"
                   THEN [orders[o] EXCEPT !.status = status, !.isDelivered = TRUE,
                                          !.deliveredAt = now]
                   ELSE [orders[o] EXCEPT !.status = status]]
            /\ Answer("status", 200, o, "none", TRUE, status, NoResult)
  /\ UNCHANGED <<catalogVars, requestVars, now, session, resendKey, emails>>

\* PUT /:id/status, behind `protect` and `admin`: the status of req.body is
\* written over the current one, whatever that is; `delivered` stamps the delivery
UpdateOrderStatus(o, status) ==
  /\ IF ~orders[o].exists
       THEN /\ Answer("status", 404, o, "none", TRUE, status, NoResult)
            /\ orders' = orders
       ELSE /\ orders' = [orders EXCEPT ![o] =
                 IF status = "delivered"
                   THEN [orders[o] EXCEPT !.status = status, !.isDelivered = TRUE,
                                          !.deliveredAt = now]
                   ELSE [orders[o] EXCEPT !.status = status]]
            /\ Answer("status", 200, o, "none", TRUE, status, NoResult)
  /\ UNCHANGED <<catalogVars, requestVars, now, session, resendKey, emails>>

\* getOrderById without the ownership test
GetOrderByIdUnchecked(u, o) ==
  /\ IF ~orders[o].exists
       THEN Answer("get", 404, o, u, TRUE, "none", NoResult)
       ELSE Answer("get", 200, o, u, TRUE, "none", NoResult)
  /\ UNCHANGED <<catalogVars, orders, requestVars, now, session, resendKey, emails>>

\* GET /:id
GetOrderById(u, o) ==
  /\ IF ~orders[o].exists
       THEN Answer("get", 404, o, u, TRUE, "none", NoResult)
     ELSE IF orders[o].user # u /\ Role[u] # "admin"
       THEN Answer("get", 403, o, u, TRUE, "none", NoResult)
     ELSE Answer("get", 200, o, u, TRUE, "none", NoResult)
  /\ UNCHANGED <<catalogVars, orders, requestVars, now, session, resendKey, emails>>

Next ==
  \E r \in Reqs :
    \/ \E cart \in Carts : CreateOrderStart(r, cart, StandardBill)
    \/ CreateOrderCheck(r)
    \/ CreateOrderPersist(r)
    \/ CreateOrderLoad(r)
    \/ CreateOrderSave(r)

Spec == Init /\ [][Next]_vars

\* the same requests served one after the other: a request is taken up only
\* when no other is between its arrival and its answer
NoneInFlight == \A r \in Reqs : pc[r] \in {"idle", "done"}

NextSerial ==
  \E r \in Reqs :
    \/ \E cart \in Carts : NoneInFlight /\ CreateOrderStart(r, cart, StandardBill)
    \/ CreateOrderCheck(r)
    \/ CreateOrderPersist(r)
    \/ CreateOrderLoad(r)
    \/ CreateOrderSave(r)

SpecSerial == Init /\ [][NextSerial]_vars

\* the payment flow: checkout, payment at Stripe, the two confirmation paths,
\* the pay route and the order lookup, over a catalog that is left alone
InitPay ==
  /\ stock = [p \in Products |-> MaxStock]
  /\ inStock = [p \in Products |-> TRUE]
  /\ resendKey \in BOOLEAN
  /\ InitServer

NextPay ==
  \/ Tick
  \/ \E u \in Customers, cart \in CheckoutCarts, stripeOk \in BOOLEAN :
       CreateCheckoutSession(u, cart, DefaultDeliveryFee, stripeOk)
  \/ \E o \in OrderIds : ProviderPays(o)
  \/ \E o \in OrderIds \cup {0}, sendOk \in BOOLEAN : VerifySession(o, sendOk)
  \/ \E sigOk \in BOOLEAN, type \in EventTypes, o \in OrderIds, sendOk \in BOOLEAN :
       Webhook(sigOk, type, o, sendOk)
  \/ \E o \in OrderIds, body \in PayBodies : UpdateOrderToPaid(o, body)
  \/ \E u \in Users, o \in OrderIds : GetOrderById(u, o)

SpecPay == InitPay /\ [][NextPay]_vars

\* the prices of an order through its life: one order per run, made by
\* createOrder with the bill of the client or by create-checkout-session with
\* the fee of the client, then paid and moved from status to status
PricedOrderCarts == {<< >>, <<[product |-> "p1", quantity |-> 1]>>}

NextPrice ==
  \/ \E r \in Reqs, cart \in PricedOrderCarts, b \in Bills :
       FreeIds = OrderIds /\ NoneInFlight /\ CreateOrderStart(r, cart, b)
  \/ \E r \in Reqs :
       \/ CreateOrderCheck(r)
       \/ CreateOrderPersist(r)
       \/ CreateOrderLoad(r)
       \/ CreateOrderSave(r)
  \/ \E u \in Customers, cart \in PricedCarts, fee \in Fees, stripeOk \in BOOLEAN :
       FreeIds = OrderIds /\ NoneInFlight /\ CreateCheckoutSession(u, cart, fee, stripeOk)
  \/ \E o \in OrderIds, status \in Statuses : UpdateOrderStatus(o, status)
  \/ \E o \in OrderIds, body \in PayBodies : UpdateOrderToPaid(o, body)

SpecPrice == InitPay /\ [][NextPrice]_vars

\* the payment flow with a data store that may be down when the webhook writes
NextFail ==
  \/ NextPay
  \/ \E o \in OrderIds, escape \in Escapes : WebhookStoreDown(o, escape)

SpecFail == InitPay /\ [][NextFail]_vars

\* the life of one order: made by createOrder or by create-checkout-session,
\* paid at Stripe, confirmed by any of the three payment writes and moved from
\* status to status by an administrator, in any order and as time goes by;
\* the server runs without RESEND_API_KEY, so no e-mail is tried
InitStatus ==
  /\ stock = [p \in Products |-> MaxStock]
  /\ inStock = [p \in Products |-> TRUE]
  /\ resendKey = FALSE
  /\ InitServer

NextStatus ==
  \/ Tick
  \/ \E r \in Reqs, cart \in PricedOrderCarts :
       FreeIds = OrderIds /\ NoneInFlight /\ CreateOrderStart(r, cart, StandardBill)
  \/ \E r \in Reqs :
       \/ CreateOrderCheck(r)
       \/ CreateOrderPersist(r)
       \/ CreateOrderLoad(r)
       \/ CreateOrderSave(r)
  \/ \E u \in Customers, cart \in CheckoutCarts, stripeOk \in BOOLEAN :
       /\ FreeIds = OrderIds /\ NoneInFlight
       /\ CreateCheckoutSession(u, cart, DefaultDeliveryFee, stripeOk)
  \/ \E o \in OrderIds : ProviderPays(o)
  \/ \E o \in OrderIds \cup {0}, sendOk \in BOOLEAN : VerifySession(o, sendOk)
  \/ \E sigOk \in BOOLEAN, type \in EventTypes, o \in OrderIds, sendOk \in BOOLEAN :
       Webhook(sigOk, type, o, sendOk)
  \/ \E o \in OrderIds, body \in PayBodies : UpdateOrderToPaid(o, body)
  \/ \E o \in OrderIds, status \in Statuses : UpdateOrderStatus(o, status)

SpecStatus == InitStatus /\ [][NextStatus]_vars

(* ------------------------------------------------------------------ *)
(* Properties of createOrder                                            *)
(* ------------------------------------------------------------------ *)
RECURSIVE DemandFrom(_, _, _)
DemandFrom(cart, p, i) ==
  IF i > Len(cart) THEN 0
  ELSE (IF cart[i].product = p THEN cart[i].quantity ELSE 0) + DemandFrom(cart, p, i + 1)
\* the quantity of product p a cart asks for, over all its lines
Demand(cart, p) == DemandFrom(cart, p, 1)

\* the quantity of p in the orders answered 201
Sold(p) ==
  (IF code["r1"] = 201 THEN Demand(items["r1"], p) ELSE 0)
    + (IF code["r2"] = 201 THEN Demand(items["r2"], p) ELSE 0)

\* a cart every line of which names an existing product and which the
\* starting stock could serve on its own
Servable(cart) ==
  /\ Len(cart) > 0
  /\ \A i \in 1..Len(cart) : cart[i].product \in Products
  /\ \A p \in Products : Demand(cart, p) <= initStock[p]

BothDone == \A r \in Reqs : pc[r] = "done"

\* C1: two createOrder calls in flight together never sell more of a product
\* than its starting stock, never leave a stock negative, and when their
\* combined demand exceeds the stock exactly one of them succeeds
C1_NoOversell ==
  /\ \A p \in Products : stock[p] >= 0 /\ Sold(p) <= initStock[p]
  /\ (/\ BothDone
      /\ Servable(items["r1"]) /\ Servable(items["r2"])
      /\ \E p \in Products :
            Demand(items["r1"], p) + Demand(items["r2"], p) > initStock[p])
       => Cardinality({r \in Reqs : code[r] = 201}) = 1

\* request r is answered in this step
Answered(r) == pc[r] # "done" /\ pc'[r] = "done"

\* line i of r's cart cannot be served: its product is missing or its
\* quantity exceeds the stock the request found
MissingAt(r, i) == items[r][i].product \notin Products
ShortAt(r, i) ==
  /\ items[r][i].product \in Products
  /\ items[r][i].quantity > startStock[r][items[r][i].product]
HasShortLine(r) == \E i \in 1..Len(items[r]) : ShortAt(r, i)
\* a line naming a missing product stands before every short line
MissingFirst(r) ==
  \E i \in 1..Len(items[r]) :
    MissingAt(r, i) /\ \A j \in 1..i : ~ShortAt(r, j)

\* C2 as stated: a createOrder with a line whose quantity exceeds the stock
\* is answered 400 and leaves every stock as it was
C2_ShortLineIs400 ==
  [][\A r \in Reqs :
       (Answered(r) /\ HasShortLine(r))
         => (code'[r] = 400 /\ stock' = startStock[r])]_vars

\* C2 amended: such a createOrder is answered with an error, 400 unless a line
\* naming a missing product comes before the first short line (then 404), and
\* leaves every stock as it was
C2_ShortLineRejected ==
  [][\A r \in Reqs :
       (Answered(r) /\ HasShortLine(r))
         => /\ code'[r] = (IF MissingFirst(r) THEN 404 ELSE 400)
            /\ stock' = startStock[r]
            /\ inStock' = inStock]_vars

\* a request was refused for a short second line after a first line that
\* could be served
C2_Witness ==
  \E r \in Reqs :
    /\ pc[r] = "done" /\ code[r] = 400
    /\ Len(items[r]) = 2
    /\ ~ShortAt(r, 1) /\ ~MissingAt(r, 1) /\ ShortAt(r, 2)
    /\ items[r][1].product # items[r][2].product
    /\ stock = startStock[r]

Handled == last' # last \/ orders' # orders \/ emails' # emails

\* the four fields a payment confirmation writes
PayState(ord) ==
  [isPaid |-> ord.isPaid, paidAt |-> ord.paidAt, status |-> ord.status,
   paymentResult |-> ord.paymentResult]

\* the paymentResult verify-session stores for order o
VerifyResult(o) ==
  [id |-> PaymentIntent(o), status |-> "paid", update_time |-> "none",
   email_address |-> Email(orders[o].user)]

\* order o was confirmed by verify-session or by the webhook
Reconciled(o) ==
  /\ orders[o].exists /\ orders[o].isPaid
  /\ orders[o].paymentResult.id = PaymentIntent(o)

\* C4: updateOrderToPaid on an order it has already marked paid with the same
\* payment result leaves isPaid, paidAt, status and paymentResult as they are
C4_PayIdempotent ==
  [][\A o \in OrderIds, b \in PayBodies :
       (/\ last'.op = "pay" /\ last'.order = o /\ last'.body = b /\ last'.code = 200
        /\ orders[o].exists /\ orders[o].isPaid
        /\ orders[o].paymentResult = b /\ orders[o].status = "processing")
         => PayState(orders'[o]) = PayState(orders[o])]_vars

\* C5: a signed checkout.session.completed for an order that verify-session
\* has marked paid leaves the order paid with the paidAt and the paymentResult
\* it had, and is answered 200
C5_WebhookAfterVerifyKeeps ==
  [][\A o \in OrderIds :
       (/\ last'.op = "webhook" /\ last'.order = o /\ last'.sig
        /\ last'.type = "checkout.session.completed" /\ Handled
        /\ orders[o].exists /\ orders[o].isPaid
        /\ orders[o].paymentResult = VerifyResult(o))
         => /\ last'.code = 200
            /\ orders'[o].isPaid
            /\ orders'[o].paidAt = orders[o].paidAt
            /\ orders'[o].paymentResult = orders[o].paymentResult]_vars

\* the step confirms order o by verify-session or by the webhook
ConfirmStep(o) ==
  /\ Handled
  /\ last'.order = o /\ last'.code = 200
  /\ \/ last'.op = "verify"
     \/ last'.op = "webhook" /\ last'.type = "checkout.session.completed"

\* C6: the two confirmation paths converge: each leaves the order paid, in
\* status processing, with the paymentResult of the session, and an order one
\* path has confirmed is left as it is by a further confirmation of either
C6_PathsConverge ==
  [][\A o \in OrderIds :
       ConfirmStep(o)
         => /\ orders'[o].isPaid /\ orders'[o].status = "processing"
            /\ orders'[o].paymentResult.id = PaymentIntent(o)
            /\ Reconciled(o) => orders'[o] = orders[o]]_vars

\* C7: a webhook request whose signature fails is answered 400 and changes no
\* order and sends no notification, whatever its payload
C7_BadSignatureRejected ==
  [][(last'.op = "webhook" /\ ~last'.sig /\ Handled)
       => (last'.code = 400 /\ orders' = orders /\ emails' = emails)]_vars

\* a forged checkout.session.completed naming an existing unpaid order was
\* answered 400 and the order is still unpaid
C7_Witness ==
  /\ last.op = "webhook" /\ ~last.sig /\ last.code = 400
  /\ last.type = "checkout.session.completed"
  /\ orders[last.order].exists /\ ~orders[last.order].isPaid
  /\ orders[last.order].status = "pending"

\* C8: verify-session on a session that is not paid is answered 400 and
\* changes no order; a signed event other than checkout.session.completed
\* changes no order either
C8_NoSuccessNoChange ==
  [][/\ (last'.op = "verify" /\ last'.order # 0 /\ Handled
           /\ session[last'.order] = "open")
          => (last'.code = 400 /\ orders' = orders /\ emails' = emails)
     /\ (last'.op = "webhook" /\ last'.sig /\ Handled
           /\ last'.type # "checkout.session.completed")
          => (last'.code = 200 /\ orders' = orders /\ emails' = emails)]_vars

\* a signed payment_intent.payment_failed was delivered for an existing order,
\* which is still pending and unpaid
C8_Witness ==
  /\ last.op = "webhook" /\ last.sig /\ last.code = 200
  /\ last.type = "payment_intent.payment_failed"
  /\ orders[last.order].exists /\ ~orders[last.order].isPaid
  /\ orders[last.order].status = "pending"
  /\ session[last.order] = "open"

\* C9: with the notification configured, sendOrderConfirmationEmail is called
\* exactly once for an order confirmed by verify-session or the webhook, and
\* never more than once for any order
C9_OneEmailPerOrder ==
  \A o \in OrderIds :
    /\ emails[o] <= 1
    /\ (resendKey /\ Reconciled(o)) => emails[o] = 1

\* the caller named in the last request is neither the owner of the order it
\* names nor an administrator
Stranger ==
  /\ Role[last'.user] # "admin"
  /\ ~(orders[last'.order].exists /\ orders[last'.order].user = last'.user)

\* C10 as stated: getOrderById by such a caller is answered 403 whether or not
\* the order exists
C10_ForbiddenRegardless ==
  [][(last'.op = "get" /\ last' # last /\ Stranger) => last'.code = 403]_vars

\* C10 amended: getOrderById by such a caller is answered 403 when the order
\* exists and 404 when it does not
C10_ForbiddenIfExists ==
  [][(last'.op = "get" /\ last' # last /\ Stranger)
       => last'.code = (IF orders[last'.order].exists THEN 403 ELSE 404)]_vars

\* u2 asked for an order of u1 and was answered 403
C10_Witness ==
  /\ last.op = "get" /\ last.code = 403 /\ last.user = "u2"
  /\ orders[last.order].exists /\ orders[last.order].user = "u1"

(* ------------------------------------------------------------------ *)
(* Properties of the prices                                             *)
(* ------------------------------------------------------------------ *)
\* C11: every order of the collection has totalPrice = itemsPrice +
\* shippingPrice + taxPrice, whichever route created it and whatever was done
\* to it since
C11_TotalAddsUp ==
  \A o \in OrderIds :
    orders[o].exists =>
      orders[o].totalPrice =
        orders[o].itemsPrice + orders[o].shippingPrice + orders[o].taxPrice

(* ------------------------------------------------------------------ *)
(* Properties of the order fields                                       *)
(* ------------------------------------------------------------------ *)
\* C12: in every reachable state of every order, paidAt is set if and only
\* if isPaid is true, and deliveredAt is set if and only if isDelivered is true
C12_StampsMatchFlags ==
  \A o \in OrderIds :
    orders[o].exists =>
      /\ orders[o].isPaid <=> orders[o].paidAt # NoTime
      /\ orders[o].isDelivered <=> orders[o].deliveredAt # NoTime

\* an order that was delivered and paid, in that order, and then moved on
C12_Witness ==
  \E o \in OrderIds :
    /\ orders[o].exists
    /\ orders[o].isPaid /\ orders[o].isDelivered
    /\ orders[o].deliveredAt < orders[o].paidAt
    /\ orders[o].status = "shipped"

(* ------------------------------------------------------------------ *)
(* Properties of the failures                                           *)
(* ------------------------------------------------------------------ *)
\* C13: a confirmation (verify-session or webhook) whose e-mail send fails is
\* still answered 200 and its payment write stands: the order is paid, with
\* status processing and the time of the request
C13_SendFailureHarmless ==
  [][(Handled /\ last'.mail = "failed") =>
       /\ last'.op \in {"verify", "webhook"}
       /\ last'.code = 200
       /\ orders'[last'.order].isPaid
       /\ orders'[last'.order].paidAt = now
       /\ orders'[last'.order].status = "processing"]_vars

\* a verify-session whose send failed, after it was answered
C13_Witness ==
  /\ last.op = "verify" /\ last.mail = "failed" /\ last.code = 200
  /\ orders[last.order].isPaid

\* C14: every request to the payment and order routes gets a response, whatever
\* fails inside its handler (code 0 stands for a request left unanswered)
C14_EveryRequestAnswered == last.op # "none" => last.code # 0

(* ------------------------------------------------------------------ *)
(* Properties of the order status                                       *)
(* ------------------------------------------------------------------ *)
\* the step serves a request to the payment or order routes, not a step of a
\* createOrder in flight
Served == Handled /\ pc' = pc

\* the statuses an administrator moves an order to after its payment
LaterStatuses == {"shipped", "delivered", "cancelled"}

\* C15: a payment confirmation (updateOrderToPaid, verify-session or webhook)
\* answered 200 for an order that is already shipped, delivered or cancelled
\* leaves that status as it is
C15_ConfirmationKeepsStatus ==
  [][\A o \in OrderIds :
       (/\ Served
        /\ last'.op \in {"pay", "verify", "webhook"}
        /\ last'.order = o /\ last'.code = 200
        /\ orders[o].exists /\ orders[o].status \in LaterStatuses)
         => orders'[o].status = orders[o].status]_vars

\* what updateOrderStatus is to leave alone in an order
KeptByStatus(ord) ==
  [user |-> ord.user, orderItems |-> ord.orderItems,
   itemsPrice |-> ord.itemsPrice, shippingPrice |-> ord.shippingPrice,
   taxPrice |-> ord.taxPrice, totalPrice |-> ord.totalPrice,
   isPaid |-> ord.isPaid, paidAt |-> ord.paidAt,
   paymentResult |-> ord.paymentResult, stripeSessionId |-> ord.stripeSessionId]

\* C16: updateOrderStatus on an existing order is answered 200 and sets the
\* status to the one supplied, whatever the current one; `delivered` also sets
\* isDelivered and deliveredAt, any other status leaves them; the payment
\* fields, the line items, the prices and every other order stay as they are.
\* On a missing order it is answered 404 and changes nothing
C16_StatusWrite ==
  [][(Served /\ last'.op = "status") =>
       LET o == last'.order
           status == last'.type
       IN IF orders[o].exists
            THEN /\ last'.code = 200
                 /\ orders'[o].status = status
                 /\ IF status = "delivered"
                      THEN orders'[o].isDelivered /\ orders'[o].deliveredAt = now
                      ELSE /\ orders'[o].isDelivered = orders[o].isDelivered
                           /\ orders'[o].deliveredAt = orders[o].deliveredAt
                 /\ KeptByStatus(orders'[o]) = KeptByStatus(orders[o])
                 /\ \A o2 \in OrderIds \ {o} : orders'[o2] = orders[o2]
            ELSE last'.code = 404 /\ orders' = orders]_vars

\* an order that was paid and delivered has been set back to pending
C16_Witness ==
  /\ last.op = "status" /\ last.code = 200 /\ last.type = "pending"
  /\ orders[last.order].status = "pending"
  /\ orders[last.order].isPaid /\ orders[last.order].isDelivered

(* ------------------------------------------------------------------ *)
(* Properties of the payment writes                                     *)
(* ------------------------------------------------------------------ *)
\* C17: an order is paid only if Stripe has reported the payment of its
\* Checkout Session
C17_PaidOnlyIfProviderPaid ==
  \A o \in OrderIds :
    orders[o].exists /\ orders[o].isPaid => session[o] = "paid"

(* ------------------------------------------------------------------ *)
(* Properties of a failed createOrder                                   *)
(* ------------------------------------------------------------------ *)
\* C18: a createOrder answered with an error (400, 404 or 500) has stored no
\* order of its caller and leaves every stock as the request found it
C18_AtomicOnFailure ==
  [][\A r \in Reqs :
       (Answered(r) /\ code'[r] \in {400, 404, 500})
         => /\ stock' = startStock'[r]
            /\ \A o \in OrderIds :
                 ~(orders'[o].exists /\ orders'[o].user = ReqUser[r])]_vars

====
